---------------------------- MODULE Spec2Model ----------------------------
(***************************************************************************)
(* Model of src/yt_dlp/extractor/afreecatv.py: the three extractors        *)
(*   AfreecaTVIE._real_extract      (VOD resolver, ie = "vod")             *)
(*   AfreecaTVLiveIE._real_extract  (live resolver, ie = "live")           *)
(*   AfreecaTVUserIE._fetch_page    (catalog paginator, ie = "user")       *)
(* One behaviour is one call of one extractor.  The platform's answers are *)
(* the inputs: each request step draws its response from a small set.      *)
(*                                                                         *)
(* Strings that the code inspects (URLs) are sequences of tokens; the      *)
(* tokens "//" (scheme and host), "mp4:", ".m3u8" and " " are the parts    *)
(* the code looks at, every other token is plain text.                     *)
(*                                                                         *)
(* The descriptive fields the code copies without inspecting them (title,  *)
(* uploader, thumbnail, duration, upload_date, timestamp) are left out,    *)
(* except the title where the code chooses between two sources; a view-info *)
(* response is either complete or "malformed" (a key the code indexes is   *)
(* missing).                                                               *)
(***************************************************************************)
EXTENDS Integers, Sequences, FiniteSets, TLC

VARIABLES
    ie,              \* which extractor this call runs
    pc,              \* position of the call in the extractor's code
    outcome,         \* how the call ended: [kind, msg, expected]
    requests,        \* every request issued so far, in order
    responses,       \* every view-info response received so far, in order
    warnings,        \* number of report_warning calls
    ignore_no_formats, \* self.get_param('ignore_no_formats')
    attempt,         \* iterations of `for _ in range(2)` completed
    partial_view,    \* local partial_view
    adult_view,      \* local adult_view
    data,            \* local data (the last view-info response)
    query,           \* local query
    file_num,        \* number of file elements the part loop has consumed
    entries,         \* local entries
    info,            \* the record returned by the single-item tail / live resolver
    url_bno,         \* group 'bno' of the live URL ("" when absent)
    password,        \* self.get_param('videopassword') ("" stands for None)
    channel_info,    \* local channel_info
    broadcast_no,    \* local broadcast_no
    qi,              \* 1-based position in _QUALITIES of the tier being processed
    aid,             \* local aid of the tier being processed
    formats,         \* local formats of the live resolver
    page,            \* zero-based page counter of the paged-list driver
    yielded,         \* forwarding references yielded so far
    fetched          \* info['data'] of every catalog page received, in order

vars == <<ie, pc, outcome, requests, responses, warnings, ignore_no_formats,
          attempt, partial_view, adult_view, data, query, file_num, entries,
          info, url_bno, password, channel_info, broadcast_no, qi, aid,
          formats, page, yielded, fetched>>

vodVars == <<responses, warnings, attempt, partial_view, adult_view, data,
             query, file_num, entries>>
liveVars == <<channel_info, broadcast_no, qi, aid, formats>>
userVars == <<page, yielded, fetched>>
paramVars == <<ie, ignore_no_formats, url_bno, password>>

---------------------------------------------------------------------------
(* Bounds of the model *)

MaxFiles == 2        \* longest data['files'] list drawn
MaxPages == 3        \* pages the paged-list driver may ask for
MaxItems == 1        \* longest info['data'] list of one catalog page

---------------------------------------------------------------------------
(* Strings *)

SeqsUpTo(S, n) == UNION {[1..k -> S] : k \in 0..n}

RECURSIVE LStrip(_)
LStrip(s) == IF s # <<>> /\ Head(s) = " " THEN LStrip(Tail(s)) ELSE s

RECURSIVE RStrip(_)
RStrip(s) ==
    IF s # <<>> /\ s[Len(s)] = " " THEN RStrip(SubSeq(s, 1, Len(s) - 1)) ELSE s

\* str.strip()
Strip(s) == RStrip(LStrip(s))

\* utils.url_or_none: the stripped string when it starts with a scheme and
\* "//", None otherwise.  <<>> stands for None (both are falsy for the caller).
url_or_none(s) ==
    LET u == Strip(s)
    IN  IF u # <<>> /\ Head(u) = "//" THEN u ELSE <<>>

\* utils.determine_ext: the text after the last dot
determine_ext(s) ==
    IF s # <<>> /\ s[Len(s)] = ".m3u8" THEN "m3u8" ELSE "unknown_video"

\* str.split(sep): the pieces between the occurrences of sep (all of them)
RECURSIVE SplitFrom(_, _, _)
SplitFrom(s, sep, cur) ==
    IF s = <<>> THEN <<cur>>
    ELSE IF Head(s) = sep THEN <<cur>> \o SplitFrom(Tail(s), sep, <<>>)
    ELSE SplitFrom(Tail(s), sep, Append(cur, Head(s)))

Split(s, sep) == SplitFrom(s, sep, <<>>)

Digits == <<"1", "2", "3", "4", "5", "6", "7", "8", "9">>

\* '%s' % n  for the small positive numbers of the model
NumStr(n) == Digits[n]

---------------------------------------------------------------------------
(* The platform's answers *)

VideoId == "36153164"

U_plain == <<"//", "a">>
U_pad   == <<" ", "//", "a">>
U_m3u8  == <<"//", "a", ".m3u8">>
U_rtmp  == <<"//", "app/", "mp4:", "clip">>
U_bad   == <<"a">>
U_empty == <<>>

Key == "20230108_9FF5BEE1_1"

\* One element of data['files'].  t = "none": JSON null; t = "str": a bare
\* string s; t = "dict": an object with 'file', 'file_info_key' and the number
\* of variants its manifest lists (m3u8n, -1: the manifest cannot be fetched).
Elem(t, s, file, key, m3u8n) ==
    [t |-> t, s |-> s, file |-> file, key |-> key, m3u8n |-> m3u8n]

FileElems ==
    {Elem("none", <<>>, <<>>, "", 0)}
    \cup {Elem("str", U_empty, <<>>, "", 0)}
    \cup {Elem("dict", <<>>, U_plain, k, 0) : k \in {"", Key}}
    \cup {Elem("dict", <<>>, U_pad, Key, 0),
          Elem("dict", <<>>, U_rtmp, "", 0),
          Elem("dict", <<>>, U_bad, Key, 0)}
    \cup {Elem("dict", <<>>, U_m3u8, "", 0),
          Elem("dict", <<>>, U_m3u8, Key, 1),
          Elem("dict", <<>>, U_m3u8, Key, -1)}

FileLists == SeqsUpTo(FileElems, MaxFiles)

Flags == {"SUCCEED", "PARTIAL_ADULT", "ADULT", "BLOCKED", ""}

\* One answer to the view-info request.  status = "fail": _download_json
\* raises; "malformed": a key the code indexes is missing; "ok": complete.
Resp(status, code, flag, files) ==
    [status |-> status, code |-> code, flag |-> flag, files |-> files]

NoData == Resp("none", 0, "", <<>>)

ViewResponses ==
    {Resp("fail", 0, "", <<>>), Resp("malformed", 0, "", <<>>),
     Resp("ok", -6221, "", <<>>)}
    \cup {Resp("ok", 0, f, <<>>) : f \in Flags \ {"SUCCEED"}}
    \cup {Resp("ok", 0, "SUCCEED", fl) : fl \in FileLists}

---------------------------------------------------------------------------
(* Outcomes *)

Out(kind, msg, expected) == [kind |-> kind, msg |-> msg, expected |-> expected]

Running == Out("none", "", FALSE)

\* raise ExtractorError(msg, expected=expected)
Raise(msg, expected) ==
    /\ outcome' = Out("error", msg, expected)
    /\ pc' = "done"

\* an exception the code does not raise itself (KeyError, IndexError, ...)
Crash(exc) ==
    /\ outcome' = Out("crash", exc, FALSE)
    /\ pc' = "done"

\* return <record>
Return(kind) ==
    /\ outcome' = Out(kind, "", FALSE)
    /\ pc' = "done"

---------------------------------------------------------------------------
(* AfreecaTVIE._real_extract: the negotiation loop *)

\* mutant of RetryLimit: range(3)
RetryLimit_Three == 2 + 1

\* for _ in range(2)
RetryLimit == 2

AdultMsg == "Only users older than 19 are able to watch this video. Provide account credentials to download this content."

\* the form posted with every view-info request
ViewRequest == {<<"nTitleNo", VideoId>>, <<"nApiLevel", "10">>}

\* the local `query` after the two `if` statements that extend it
Query(pv, av) ==
    {<<"nTitleNo", VideoId>>, <<"nStationNo", "station_no">>, <<"nBbsNo", "bbs_no">>}
    \cup (IF pv THEN {<<"partialView", "SKIP_ADULT">>} ELSE {})
    \cup (IF av THEN {<<"adultView", "ADULT_VIEW">>} ELSE {})

Step(step, msg, pv, av, warn) ==
    [step |-> step, msg |-> msg, pv |-> pv, av |-> av, warn |-> warn]

\* mutant of FlagStep: the ADULT branch retries without testing adult_view
FlagStep_AdultAlwaysRetries(flag, pv, av) ==
    IF flag # "" /\ flag = "SUCCEED" THEN Step("break", "", pv, av, 0)
    ELSE IF flag = "PARTIAL_ADULT" THEN Step("continue", "", TRUE, av, 1)
    ELSE IF flag = "ADULT" THEN Step("continue", "", pv, TRUE, 0)
    ELSE Step("raise", flag, pv, av, 0)

\* what one iteration does with data['flag']
FlagStep(flag, pv, av) ==
    IF flag # "" /\ flag = "SUCCEED" THEN Step("break", "", pv, av, 0)
    ELSE IF flag = "PARTIAL_ADULT" THEN Step("continue", "", TRUE, av, 1)
    ELSE IF flag = "ADULT"
         THEN IF ~av THEN Step("continue", "", pv, TRUE, 0)
              ELSE Step("raise", AdultMsg, pv, av, 0)
    ELSE Step("raise", flag, pv, av, 0)

\* one iteration of `for _ in range(2)`: the request and the whole loop body
VodAttempt(r) ==
    /\ ie = "vod" /\ pc = "loop" /\ attempt < RetryLimit
    /\ UNCHANGED <<paramVars, liveVars, userVars>>
    /\ requests' = Append(requests, ViewRequest)
    /\ responses' = Append(responses, r)
    /\ UNCHANGED <<file_num, entries, info>>
    /\ IF r.status = "fail"
       THEN /\ Raise("Unable to download JSON metadata", FALSE)
            /\ UNCHANGED <<data, query, partial_view, adult_view, warnings, attempt>>
       ELSE /\ data' = r
            /\ IF r.code = -6221
               THEN /\ Raise("The VOD does not exist", TRUE)
                    /\ UNCHANGED <<query, partial_view, adult_view, warnings, attempt>>
               ELSE IF r.status = "malformed"
               THEN /\ Crash("KeyError")
                    /\ UNCHANGED <<query, partial_view, adult_view, warnings, attempt>>
               ELSE LET st == FlagStep(r.flag, partial_view, adult_view)
                    IN  /\ query' = Query(partial_view, adult_view)
                        /\ partial_view' = st.pv
                        /\ adult_view' = st.av
                        /\ warnings' = warnings + st.warn
                        /\ IF st.step = "raise"
                           THEN Raise(st.msg, TRUE) /\ UNCHANGED attempt
                           ELSE IF st.step = "break"
                           THEN pc' = "build" /\ UNCHANGED <<outcome, attempt>>
                           ELSE /\ attempt' = attempt + 1
                                /\ UNCHANGED <<pc, outcome>>

\* the `else` of the for loop: both iterations ended in `continue`
ExhaustedMsg == "Unable to download video info"

VodLoopExhausted ==
    /\ ie = "vod" /\ pc = "loop" /\ attempt = RetryLimit
    /\ UNCHANGED <<paramVars, liveVars, userVars>>
    /\ Raise(ExhaustedMsg, FALSE)
    /\ UNCHANGED <<requests, vodVars, info>>

---------------------------------------------------------------------------
(* AfreecaTVIE._real_extract: building the record *)

\* str(video_element): a string is itself, an object prints as a
\* brace-delimited text, which is never empty
Str(e) ==
    IF e.t = "str" THEN e.s
    ELSE IF e.t = "none" THEN <<"None">>
    ELSE <<"{'file': ">> \o e.file \o <<"}">>

\* self._extract_m3u8_formats for a manifest that lists n variants
M3u8Formats(url, n) == [i \in 1..n |-> [url |-> url, format_id |-> "hls"]]

NoInfo == [url |-> <<>>, play_path |-> <<>>, rtmp_live |-> FALSE, formats |-> <<>>]

\* the tail after `if video_url:`, for the stripped video_url
SingleTail(video_url, m3u8n) ==
    IF determine_ext(video_url) = "m3u8"
    THEN IF m3u8n < 0
         THEN Raise("Failed to download m3u8 information", FALSE) /\ UNCHANGED info
         ELSE /\ info' = [NoInfo EXCEPT !.formats = M3u8Formats(video_url, m3u8n)]
              /\ Return("video")
    ELSE LET parts == Split(video_url, "mp4:")
         IN  IF Len(parts) = 2        \* app, playpath = video_url.split('mp4:')
             THEN /\ info' = [NoInfo EXCEPT !.url = parts[1],
                                            !.play_path = <<"mp4:">> \o parts[2],
                                            !.rtmp_live = TRUE]
                  /\ Return("video")
             ELSE Crash("ValueError") /\ UNCHANGED info

\* mutant of TakesPartLoop: `if not video_url:`
TakesPartLoop_Inverted(video_url) == video_url = <<>>

\* `if video_url:`
TakesPartLoop(video_url) == video_url # <<>>

\* lines 224-254 and, when video_url is empty, the tail 299-321
VodBuild ==
    /\ ie = "vod" /\ pc = "build"
    /\ UNCHANGED <<paramVars, liveVars, userVars>>
    /\ UNCHANGED <<requests, responses, warnings, attempt, partial_view,
                   adult_view, data, query>>
    /\ IF data.files = <<>>
       THEN Crash("IndexError") /\ UNCHANGED <<file_num, entries, info>>
       ELSE LET video_element == data.files[Len(data.files)]
                video_url == Strip(Str(video_element))
            IN  IF video_element.t = "none"
                THEN /\ Raise("Video does not exist", TRUE)
                     /\ UNCHANGED <<file_num, entries, info>>
                ELSE IF TakesPartLoop(video_url)
                THEN /\ pc' = "files"
                     /\ entries' = <<>>
                     /\ file_num' = 0
                     /\ UNCHANGED <<outcome, info>>
                ELSE /\ SingleTail(video_url, video_element.m3u8n)
                     /\ UNCHANGED <<file_num, entries>>

\* mutant of FormatId: the position is counted from 0
FormatId_ZeroBased(key, n) ==
    IF key # "" THEN <<key>> ELSE <<VideoId, "_", (<<"0">> \o Digits)[n]>>

\* format_id = key if key else '%s_%s' % (video_id, file_num)
FormatId(key, n) == IF key # "" THEN <<key>> ELSE <<VideoId, "_", NumStr(n)>>

\* `formats` of one file element: the manifest's variants, or one 'http' source
PartFormats(file_url, m3u8n) ==
    IF determine_ext(file_url) = "m3u8"
    THEN M3u8Formats(file_url, m3u8n)
    ELSE <<[url |-> file_url, format_id |-> "http"]>>

\* the two `continue` tests of the part loop: no URL, or no formats
\* while ignore_no_formats is off
PartSkipped(e, permissive) ==
    \/ url_or_none(e.file) = <<>>
    \/ PartFormats(url_or_none(e.file), e.m3u8n) = <<>> /\ ~permissive

\* file_info for element e at 1-based position n; part = 0 is the title
\* without the '(part %d)' suffix
PartEntry(e, n, one) ==
    [id |-> FormatId(e.key, n),
     part |-> IF one THEN 0 ELSE n,
     formats |-> PartFormats(url_or_none(e.file), e.m3u8n)]

\* one iteration of `for file_num, file_element in enumerate(file_elements, start=1)`
VodFile ==
    /\ ie = "vod" /\ pc = "files" /\ file_num < Len(data.files)
    /\ UNCHANGED <<paramVars, liveVars, userVars>>
    /\ UNCHANGED <<requests, responses, warnings, attempt, partial_view,
                   adult_view, data, query, info>>
    /\ LET n == file_num + 1
           e == data.files[n]
           one == Len(data.files) = 1
       IN  IF e.t # "dict"          \* file_element['file'] on None or on a str
           THEN Crash("TypeError") /\ UNCHANGED <<file_num, entries>>
           ELSE IF /\ url_or_none(e.file) # <<>>
                   /\ determine_ext(url_or_none(e.file)) = "m3u8"
                   /\ e.m3u8n < 0
           THEN /\ Raise("Failed to download m3u8 information", FALSE)
                /\ UNCHANGED <<file_num, entries>>
           ELSE /\ file_num' = n
                /\ entries' = IF PartSkipped(e, ignore_no_formats) THEN entries
                              ELSE Append(entries, PartEntry(e, n, one))
                /\ UNCHANGED <<pc, outcome>>

\* lines 292-297: return the multi_video record
VodReturn ==
    /\ ie = "vod" /\ pc = "files" /\ file_num = Len(data.files)
    /\ UNCHANGED <<paramVars, liveVars, userVars>>
    /\ Return("multi_video")
    /\ UNCHANGED <<requests, vodVars, info>>

---------------------------------------------------------------------------
(* AfreecaTVLiveIE._real_extract *)

QUALITIES == <<"sd", "hd", "hd2k", "original">>

\* utils.qualities(_QUALITIES): the position in the list, counted from 0
quality_key(q) == (CHOOSE i \in 1..Len(QUALITIES) : QUALITIES[i] = q) - 1

LiveReq(ep, quality, pwd) == [ep |-> ep, quality |-> quality, pwd |-> pwd]

Channel(bno, bpwd, title) == [BNO |-> bno, BPWD |-> bpwd, TITLE |-> title]

\* info.get('CHANNEL') or {}: the empty channel stands for a failed request
\* and for an answer without CHANNEL
ChannelResponses ==
    {Channel(b, p, t) : b \in {"", "237852185"}, p \in {"", "Y"}, t \in {"", "title"}}

NotLiveMsg == "Unable to extract broadcast number"

PasswordMsg == "This livestream is protected by a password, use the --video-password option"

\* mutant of IsNotLive: the test is missing
IsNotLive_Never(bno) == FALSE

\* `if not broadcast_no:`
IsNotLive(bno) == bno = ""

\* lines 353-367: the channel lookup and the two checks
LiveChannel(r) ==
    /\ ie = "live" /\ pc = "channel"
    /\ UNCHANGED <<paramVars, vodVars, userVars>>
    /\ requests' = Append(requests, LiveReq("channel", "", ""))
    /\ channel_info' = r
    /\ broadcast_no' = IF r.BNO # "" THEN r.BNO ELSE url_bno
    /\ UNCHANGED <<aid, formats, info>>
    /\ IF IsNotLive(broadcast_no')
       THEN Raise(NotLiveMsg, TRUE) /\ UNCHANGED qi
       ELSE IF r.BPWD = "Y" /\ password = ""
       THEN Raise(PasswordMsg, TRUE) /\ UNCHANGED qi
       ELSE pc' = "token" /\ qi' = 1 /\ UNCHANGED outcome

\* mutant of LiveToken: `if not aid: continue` is missing
LiveToken_NoSkip(a) ==
    /\ ie = "live" /\ pc = "token" /\ qi <= Len(QUALITIES)
    /\ UNCHANGED <<paramVars, vodVars, userVars>>
    /\ requests' = Append(requests, LiveReq("token", QUALITIES[qi], password))
    /\ aid' = a
    /\ qi' = qi /\ pc' = "assign"
    /\ UNCHANGED <<outcome, channel_info, broadcast_no, formats, info>>

\* mutant of LiveToken: the token request without fatal=False
LiveToken_Fatal(a) ==
    /\ ie = "live" /\ pc = "token" /\ qi <= Len(QUALITIES)
    /\ UNCHANGED <<paramVars, vodVars, userVars>>
    /\ requests' = Append(requests, LiveReq("token", QUALITIES[qi], password))
    /\ aid' = a
    /\ IF a = "" THEN Raise("Unable to download access token", FALSE) /\ qi' = qi
                 ELSE qi' = qi /\ pc' = "assign" /\ UNCHANGED outcome
    /\ UNCHANGED <<channel_info, broadcast_no, formats, info>>

\* lines 371-387: the access-token request of tier qi; a = "" is a failed
\* request or an answer without CHANNEL.AID
LiveToken(a) ==
    /\ ie = "live" /\ pc = "token" /\ qi <= Len(QUALITIES)
    /\ UNCHANGED <<paramVars, vodVars, userVars>>
    /\ requests' = Append(requests, LiveReq("token", QUALITIES[qi], password))
    /\ aid' = a
    /\ IF a = "" THEN qi' = qi + 1 /\ pc' = pc
                 ELSE qi' = qi /\ pc' = "assign"
    /\ UNCHANGED <<outcome, channel_info, broadcast_no, formats, info>>

\* lines 389-406: the CDN assignment of tier qi; v = "" is a failed request
\* or an answer without view_url
LiveAssign(v) ==
    /\ ie = "live" /\ pc = "assign"
    /\ UNCHANGED <<paramVars, vodVars, userVars>>
    /\ requests' = Append(requests, LiveReq("assign", QUALITIES[qi], ""))
    /\ formats' = IF v # ""
                  THEN Append(formats, [format_id |-> QUALITIES[qi],
                                        url |-> <<v, "?aid=", aid>>,
                                        quality |-> quality_key(QUALITIES[qi])])
                  ELSE formats
    /\ qi' = qi + 1
    /\ pc' = "token"
    /\ UNCHANGED <<outcome, channel_info, broadcast_no, aid, info>>

\* lines 408-421: the channel-status lookup and the returned record; s = ""
\* is a failed request or an answer without station_title
LiveStation(s) ==
    /\ ie = "live" /\ pc = "token" /\ qi > Len(QUALITIES)
    /\ UNCHANGED <<paramVars, vodVars, userVars>>
    /\ requests' = Append(requests, LiveReq("station", "", ""))
    /\ info' = [id |-> broadcast_no,
                title |-> IF channel_info.TITLE # "" THEN channel_info.TITLE ELSE s,
                formats |-> formats,
                is_live |-> TRUE]
    /\ Return("live")
    /\ UNCHANGED <<liveVars>>

---------------------------------------------------------------------------
(* AfreecaTVUserIE._fetch_page under the paged-list driver *)

PER_PAGE == 60

TitleNos == {"96753363", "97267690"}

\* info['data'] of one catalog page, or Failed when _download_json raises
Failed == <<"failed">>

PageResponses == SeqsUpTo(TitleNos, MaxItems) \cup {Failed}

\* mutant of FetchPageQuery: without `page += 1`
FetchPageQuery_ZeroBased(p) ==
    [ep |-> "vods", page |-> p, per_page |-> PER_PAGE, orderby |-> "reg_date"]

\* `page += 1` and the query of the page request
FetchPageQuery(p) ==
    [ep |-> "vods", page |-> p + 1, per_page |-> PER_PAGE, orderby |-> "reg_date"]

\* self.url_result(f'https://vod.afreecatv.com/player/{title_no}/', AfreecaTVIE, title_no)
url_result(title_no) ==
    [type |-> "url", ie_key |-> "AfreecaTV", id |-> title_no,
     url |-> <<"https://vod.afreecatv.com/player/", title_no, "/">>]

\* what _fetch_page yields for the items of one page
FetchPageResults(items) == [i \in 1..Len(items) |-> url_result(items[i])]

\* the paged-list driver asks for the next page unless this one had no items
DriverStops(items) == items = <<>>

\* the driver asks for page `page`: one call of _fetch_page, consumed whole
UserFetchPage(r) ==
    /\ ie = "user" /\ pc = "paging" /\ page < MaxPages
    /\ UNCHANGED <<paramVars, vodVars, liveVars, info>>
    /\ requests' = Append(requests, FetchPageQuery(page))
    /\ IF r = Failed
       THEN /\ Raise("Unable to download JSON metadata", FALSE)
            /\ UNCHANGED <<page, yielded, fetched>>
       ELSE /\ yielded' = yielded \o FetchPageResults(r)
            /\ fetched' = Append(fetched, r)
            /\ IF DriverStops(r)
               THEN Return("playlist") /\ UNCHANGED page
               ELSE page' = page + 1 /\ UNCHANGED <<pc, outcome>>

---------------------------------------------------------------------------
(* The specification *)

NoChannel == Channel("", "", "")

Init ==
    /\ ie \in {"vod", "live", "user"}
    /\ pc = (IF ie = "vod" THEN "loop" ELSE IF ie = "live" THEN "channel" ELSE "paging")
    /\ outcome = Running
    /\ requests = <<>>
    /\ responses = <<>>
    /\ warnings = 0
    /\ ignore_no_formats \in (IF ie = "vod" THEN BOOLEAN ELSE {FALSE})
    /\ attempt = 0
    /\ partial_view = FALSE
    /\ adult_view = FALSE
    /\ data = NoData
    /\ query = {}
    /\ file_num = 0
    /\ entries = <<>>
    /\ info = NoInfo
    /\ url_bno \in (IF ie = "live" THEN {"", "237852185"} ELSE {""})
    /\ password \in (IF ie = "live" THEN {"", "pw"} ELSE {""})
    /\ channel_info = NoChannel
    /\ broadcast_no = ""
    /\ qi = 0
    /\ aid = ""
    /\ formats = <<>>
    /\ page = 0
    /\ yielded = <<>>
    /\ fetched = <<>>

Next ==
    \/ \E r \in ViewResponses : VodAttempt(r)
    \/ VodLoopExhausted
    \/ VodBuild
    \/ VodFile
    \/ VodReturn
    \/ \E r \in ChannelResponses : LiveChannel(r)
    \/ \E a \in {"", "aid"} : LiveToken(a)
    \/ \E v \in {"", "//view"} : LiveAssign(v)
    \/ \E s \in {"", "station"} : LiveStation(s)
    \/ \E r \in PageResponses : UserFetchPage(r)

Spec == Init /\ [][Next]_vars

\* the call is sequential code: whenever a step is possible it is taken
FairSpec == Spec /\ WF_vars(Next)

---------------------------------------------------------------------------
(* Properties of the negotiation loop *)

\* the i-th view-info response arrived complete, without the -6221 code,
\* and carries flag f
Carries(i, f) ==
    /\ Len(responses) >= i
    /\ responses[i].status = "ok"
    /\ responses[i].code # -6221
    /\ responses[i].flag = f

Restricted == Out("error", AdultMsg, TRUE)

Unresolvable == Out("error", ExhaustedMsg, FALSE)

\* C1 as stated: when both view-info responses carry flag ADULT, exactly 2
\* requests are issued and the call ends in the Unresolvable failure.
C1_AsStated ==
    (ie = "vod" /\ Carries(1, "ADULT") /\ Carries(2, "ADULT"))
        => (pc = "done" /\ Len(requests) = 2 /\ outcome = Unresolvable)

\* C1 amended: a first ADULT response does not end the call (it goes on to a
\* second request); when both responses carry flag ADULT exactly 2 requests
\* are issued and the call ends in the expected Restricted failure, whose
\* message asks for account credentials.
C1_TwoAdultRestricted ==
    /\ (ie = "vod" /\ Carries(1, "ADULT") /\ Len(responses) = 1)
           => (pc = "loop" /\ attempt = 1 /\ outcome = Running /\ Len(requests) = 1)
    /\ (ie = "vod" /\ Carries(1, "ADULT") /\ Carries(2, "ADULT"))
           => (pc = "done" /\ Len(requests) = 2 /\ outcome = Restricted)

C1_Witness ==
    ie = "vod" /\ Carries(1, "ADULT") /\ Carries(2, "ADULT") /\ pc = "done"

\* C2 as stated: after a first PARTIAL_ADULT flag a warning is emitted and the
\* second view-info request carries partialView=SKIP_ADULT; after a first
\* ADULT flag the second request carries adultView=ADULT_VIEW.
C2_RetryCarriesModifier ==
    (ie = "vod" /\ Len(requests) >= 2) =>
        /\ Carries(1, "PARTIAL_ADULT")
               => (warnings >= 1 /\ <<"partialView", "SKIP_ADULT">> \in requests[2])
        /\ Carries(1, "ADULT") => <<"adultView", "ADULT_VIEW">> \in requests[2]

\* both iterations ended in `continue`: two complete responses, each
\* PARTIAL_ADULT or ADULT, not both ADULT
BothRetried ==
    /\ \A i \in 1..2 : Carries(i, "PARTIAL_ADULT") \/ Carries(i, "ADULT")
    /\ ~(Carries(1, "ADULT") /\ Carries(2, "ADULT"))

C3_Bounded ==
    ie = "vod" =>
        /\ Len(requests) <= 2
        /\ attempt <= 2
        /\ (pc = "done" /\ (attempt = 2 \/ BothRetried)) => outcome = Unresolvable
        /\ outcome.kind \in {"multi_video", "video"}
               => \E i \in 1..Len(responses) : Carries(i, "SUCCEED")

\* C3: for every sequence of responses the VOD resolver issues at most 2
\* view-info requests and the call always ends; when neither attempt reached
\* SUCCEED and none raised, it ends in the fatal (not expected) Unresolvable
\* failure, and a record is only returned after a SUCCEED response.
C3_TwoAttemptsThenFatal == []C3_Bounded /\ ((ie = "vod") ~> (pc = "done"))

C3_Witness ==
    ie = "vod" /\ pc = "done" /\ BothRetried /\ outcome = Unresolvable

---------------------------------------------------------------------------
(* Properties of the record construction *)

\* the call got past the negotiation loop and has ended
Built == ie = "vod" /\ pc = "done" /\ data.status = "ok" /\ data.flag = "SUCCEED"

HasMp4(url) == \E i \in 1..Len(url) : url[i] = "mp4:"

\* number of stream sources the file element e resolves to
NSources(e) ==
    IF e.t # "dict" \/ url_or_none(e.file) = <<>> THEN 0
    ELSE IF determine_ext(url_or_none(e.file)) = "m3u8" THEN e.m3u8n
    ELSE 1

\* C4 as stated: the VOD resolver never returns a record with an empty list
\* of parts and sources; when no file entry yields a source the call ends in
\* an error.
C4_NoEmptyRecord ==
    (Built /\ ignore_no_formats = FALSE) =>
        /\ outcome.kind = "multi_video" => entries # <<>>
        /\ outcome.kind = "video" => (info.formats # <<>> \/ info.url # <<>>)
        /\ (\A i \in 1..Len(data.files) : NSources(data.files[i]) <= 0)
             => outcome.kind \in {"error", "crash"}

\* C5 as stated: a single-file response whose URL contains 'mp4:' yields a
\* single-item record with url = the text before the first 'mp4:',
\* play_path = 'mp4:' + the rest, and rtmp_live = true.
C5_Mp4Split ==
    (Built /\ Len(data.files) = 1 /\ data.files[1].t = "dict"
           /\ HasMp4(Strip(data.files[1].file))) =>
        LET url == Strip(data.files[1].file)
            k == CHOOSE i \in 1..Len(url) :
                     url[i] = "mp4:" /\ \A j \in 1..(i - 1) : url[j] # "mp4:"
        IN  /\ outcome.kind = "video"
            /\ info.url = SubSeq(url, 1, k - 1)
            /\ info.play_path = SubSeq(url, k, Len(url))
            /\ info.rtmp_live = TRUE

\* the response lists exactly one file, an object whose URL is valid and has
\* neither the m3u8 extension nor the 'mp4:' marker
OnePlainFile ==
    /\ Len(data.files) = 1
    /\ data.files[1].t = "dict"
    /\ url_or_none(data.files[1].file) # <<>>
    /\ determine_ext(url_or_none(data.files[1].file)) # "m3u8"
    /\ ~HasMp4(data.files[1].file)

ZeroSource == {i \in 1..Len(data.files) : NSources(data.files[i]) <= 0}

\* positions of the file elements without a valid URL
NoUrl == {i \in 1..Len(data.files) :
             data.files[i].t # "dict" \/ url_or_none(data.files[i].file) = <<>>}

\* the k-th smallest position of the set S
Nth(S, k) == CHOOSE i \in S : Cardinality({j \in S : j <= i}) = k

\* the parts are the file elements at the positions `kept`, in input order,
\* each with its key as id, or '<video-id>_<position>' when the key is empty
PartsAre(kept) ==
    /\ Len(entries) = Len(data.files) - Cardinality(1..Len(data.files) \ kept)
    /\ Len(entries) = Cardinality(kept)
    /\ \A k \in 1..Len(entries) :
          LET i == Nth(kept, k)
          IN  entries[k].id = IF data.files[i].key # ""
                              THEN <<data.files[i].key>>
                              ELSE <<VideoId, "_", Digits[i]>>

MultiFile == Built /\ Len(data.files) >= 2 /\ outcome.kind = "multi_video"

\* C7 as stated: the parts of a multi-file response are the file entries
\* minus those yielding zero sources, none being dropped in permissive mode,
\* in input order, with id = key or '<video-id>_<1-based position>'.
C7_AsStated ==
    MultiFile =>
        PartsAre(IF ignore_no_formats THEN 1..Len(data.files)
                 ELSE 1..Len(data.files) \ ZeroSource)

\* C7 amended: the parts of a multi-file response are the file entries minus
\* those yielding zero sources; in permissive mode the entries with a valid
\* URL and an empty format list are kept, but an entry without a valid URL
\* is dropped in either mode.  Parts keep input order, with id = key or
\* '<video-id>_<1-based position in the input list>'.
C7_PartsOfMultiFile ==
    MultiFile =>
        PartsAre(IF ignore_no_formats THEN 1..Len(data.files) \ NoUrl
                 ELSE 1..Len(data.files) \ ZeroSource)

C7_Witness ==
    /\ MultiFile /\ ignore_no_formats
    /\ 1 \in NoUrl
    /\ data.files[2].key = "" /\ NSources(data.files[2]) = 0
    /\ Len(entries) = 1 /\ entries[1].id = <<VideoId, "_", "2">>

---------------------------------------------------------------------------
(* Properties of the live resolver *)

\* neither the channel answer nor the URL gives a broadcast number
NoBroadcastNo ==
    ie = "live" /\ pc # "channel" /\ channel_info.BNO = "" /\ url_bno = ""

\* C8: live resolution with no obtainable broadcast number fails with the
\* expected NotLive error after exactly one request, the channel lookup; no
\* token, CDN-assignment or channel-status request follows.
C8_NotLiveAfterOneRequest ==
    NoBroadcastNo =>
        /\ pc = "done"
        /\ outcome = Out("error", NotLiveMsg, TRUE)
        /\ requests = <<LiveReq("channel", "", "")>>
        /\ formats = <<>>

C8_Witness == NoBroadcastNo /\ pc = "done" /\ channel_info = NoChannel

\* Step 1 has passed: a broadcast number exists and the password check holds
Step1Passed ==
    /\ ie = "live" /\ pc # "channel"
    /\ broadcast_no # ""
    /\ ~(channel_info.BPWD = "Y" /\ password = "")

C10_NoFailure ==
    Step1Passed =>
        /\ pc # "done" => outcome = Running
        /\ pc = "done" =>
              /\ outcome.kind = "live"
              /\ info.is_live = TRUE
              /\ info.id = broadcast_no
              /\ info.formats = formats
              /\ Len(formats) <= Len(QUALITIES)

\* C10: once Step 1 of the live resolver has passed, the call always returns
\* a record with is_live = true, whatever token, CDN-assignment and
\* channel-status requests fail; a record without sources is returned as a
\* success.
C10_AlwaysLiveRecord ==
    []C10_NoFailure /\ (Step1Passed ~> (outcome.kind = "live"))

C10_Witness ==
    /\ Step1Passed /\ pc = "done" /\ outcome.kind = "live"
    /\ channel_info = NoChannel
    /\ formats = <<>> /\ info.formats = <<>> /\ info.title = ""
    /\ info.is_live = TRUE
    /\ \E i \in 1..Len(requests) : requests[i].ep = "assign"

---------------------------------------------------------------------------
(* Properties of the catalog paginator *)

\* C9: the i-th page request, issued when the zero-based counter is i - 1,
\* carries page = i and per_page = 60; no page is requested after the first
\* page with an empty item list; the paginator yields forwarding references
\* only and issues no view-info request.
C9_Pagination ==
    ie = "user" =>
        /\ \A i \in 1..Len(requests) :
              /\ requests[i].ep = "vods"
              /\ requests[i].page = (i - 1) + 1
              /\ requests[i].per_page = 60
        /\ pc = "paging" => page = Len(requests)
        /\ \A i \in 1..(Len(fetched) - 1) : fetched[i] # <<>>
        /\ (fetched # <<>> /\ fetched[Len(fetched)] = <<>>)
              => (pc = "done" /\ outcome.kind = "playlist"
                  /\ Len(requests) = Len(fetched))
        /\ \A k \in 1..Len(yielded) :
              yielded[k].type = "url" /\ yielded[k].ie_key = "AfreecaTV"
        /\ responses = <<>>

C9_Witness ==
    /\ ie = "user" /\ pc = "done"
    /\ Len(fetched) = 2 /\ fetched[1] # <<>> /\ fetched[2] = <<>>
    /\ Len(yielded) = 1

---------------------------------------------------------------------------
(* Properties of the tier loop of the live resolver *)

\* the tiers, lowest to highest
TierOrder == <<"sd", "hd", "hd2k", "original">>

\* position of tier q in TierOrder, counted from 1
TierPos(q) == CHOOSE k \in 1..Len(TierOrder) : TierOrder[k] = q

IsToken(r) == r.ep = "token"

IsAssign(r) == r.ep = "assign"

TokenRequests == SelectSeq(requests, IsToken)

\* C11: the live resolver processes the tiers in the order sd, hd, hd2k,
\* original.  The token request of a tier comes first; its CDN-assignment
\* request follows only when the token was obtained, otherwise the tier is
\* skipped and the next tier is tried; a source is recorded only when the
\* assignment yields a view URL.  So the source list has at most one source
\* per tier, in ascending tier order, each with the quality rank of its
\* tier's position in that order (counted from 0, as utils.qualities does).
C11_TiersInOrder ==
    ie = "live" =>
        /\ Len(TokenRequests) <= Len(TierOrder)
        /\ \A k \in 1..Len(TokenRequests) : TokenRequests[k].quality = TierOrder[k]
        /\ \A i \in 1..Len(requests) :
              /\ IsAssign(requests[i]) =>
                    /\ i > 1
                    /\ IsToken(requests[i - 1])
                    /\ requests[i - 1].quality = requests[i].quality
              /\ requests[i].ep = "station" =>
                    (i = Len(requests) /\ Len(TokenRequests) = Len(TierOrder))
        /\ pc = "assign" =>
              /\ aid # ""
              /\ IsToken(requests[Len(requests)])
              /\ requests[Len(requests)].quality = TierOrder[qi]
        /\ (pc = "token" /\ IsToken(requests[Len(requests)])) =>
              /\ aid = ""
              /\ qi = TierPos(requests[Len(requests)].quality) + 1
        /\ \A k \in 1..Len(formats) :
              /\ formats[k].quality = TierPos(formats[k].format_id) - 1
              /\ formats[k].url[1] # ""
              /\ \E i \in 1..Len(requests) :
                    IsAssign(requests[i]) /\ requests[i].quality = formats[k].format_id
              /\ \A j \in 1..(k - 1) : formats[j].quality < formats[k].quality
        /\ Len(formats) <= Cardinality({i \in 1..Len(requests) : IsAssign(requests[i])})

\* sd and hd2k resolved, the hd token refused, the assignment of original
\* without a view URL
C11_Witness ==
    /\ ie = "live" /\ pc = "done" /\ outcome.kind = "live"
    /\ Len(TokenRequests) = 4
    /\ Cardinality({i \in 1..Len(requests) : IsAssign(requests[i])}) = 3
    /\ Len(formats) = 2
    /\ formats[1].format_id = "sd" /\ formats[1].quality = 0
    /\ formats[2].format_id = "hd2k" /\ formats[2].quality = 2

===========================================================================
